---- MODULE Spec2Model ----
(***************************************************************************)
(* AnalyzeAI frontend: the session/authentication state of AuthProvider    *)
(* (components/auth/AuthContext.js) and the generation request lifecycle   *)
(* of HomePage, with the form QueryForm, the service generateDocument and  *)
(* the helpers downloadFile and generateDocumentFilename (utils/helpers.js)*)
(*                                                                         *)
(* JavaScript is single-threaded: every action below is one run of a       *)
(* handler or of the continuation of an await, from its start to its next  *)
(* suspension point.  A fetch whose response has arrived and whose body is *)
(* then read with a second await (response.json()) changes no program      *)
(* variable between the two awaits, so the settling of the fetch and the   *)
(* continuation that applies its result are one action whose input is the  *)
(* response (status and body).                                             *)
(***************************************************************************)
EXTENDS Integers, Sequences, FiniteSets, TLC

\* ------------------------------------------------------------------------
\* Bounds of the model
\* ------------------------------------------------------------------------
\* concurrently outstanding logout() calls
MaxLogout == 2
\* calls of login() counted in a row with the same argument
MaxLoginCalls == 2
\* last reading of the clock (Date.now())
MaxClock == 1
\* re-downloads counted after one success
MaxRedownloads == 2
\* generation calls outstanding at once when handleDownload is called directly
MaxInFlight == 2

\* ------------------------------------------------------------------------
\* JavaScript values
\* ------------------------------------------------------------------------
\* a property that is missing from an object (reads as undefined)
Undef == "undefined"

\* JavaScript truthiness of a string-or-undefined value (a && b, a || b)
Truthy(v) == v # Undef /\ v # ""

\* a || b
OrElse(a, b) == IF Truthy(a) THEN a ELSE b

\* an optional value: null is <<>>, a present value x is <<x>>
Null == <<>>
Some(x) == <<x>>

\* the four properties of the user object
Fields == <<"name", "email", "id", "provider">>

\* JSON.stringify(obj): the members whose value is undefined are left out
JSONStringify(obj) ==
    [wellFormed |-> TRUE,
     members |-> SelectSeq([i \in 1..Len(Fields) |-> <<Fields[i], obj[Fields[i]]>>],
                           LAMBDA m : m[2] # Undef)]

\* the value of member k of a parsed text, undefined when the text has no such member
Member(text, k) ==
    LET hits == SelectSeq(text.members, LAMBDA m : m[1] = k)
    IN  IF hits = <<>> THEN Undef ELSE hits[1][2]

\* JSON.parse(text) of a well-formed text, read through the four properties
JSONParse(text) == [f \in {Fields[i] : i \in 1..Len(Fields)} |-> Member(text, f)]

\* a stored text JSON.parse throws a SyntaxError on
MalformedText == [wellFormed |-> FALSE, members |-> <<>>]

\* ------------------------------------------------------------------------
\* Inputs: what the backend answers and what the storage slot holds at first
\* ------------------------------------------------------------------------
Names == {Undef, "", "ann"}
Emails == {Undef, "ann@x.io"}
Ids == {Undef, "u1"}
Providers == {Undef, "google"}

\* the JSON bodies of /status and /auth/callback, and the arguments of login()
UserBodies == [name : Names, email : Emails, id : Ids, provider : Providers]

\* how a fetch with a JSON body ends: 2xx with a body, 2xx whose body is not
\* JSON, 401, another non-2xx status, or a rejected promise (network error)
Outcomes == {"ok", "badjson", "401", "non2xx", "neterr"}
\* how a fetch whose body is not read ends
PostOutcomes == {"ok", "non2xx", "neterr"}

\* the SQL query is a sequence of characters; the texts typed into the query field:
\* nothing, blanks only, and a query with blanks around it
Queries == {<<>>, <<" ", " ">>, <<" ", "x", " ">>}

\* String.prototype.trim(): drop the blanks at both ends
RECURSIVE TrimLeft(_)
TrimLeft(q) == IF q # <<>> /\ Head(q) = " " THEN TrimLeft(Tail(q)) ELSE q
RECURSIVE TrimRight(_)
TrimRight(q) == IF q # <<>> /\ q[Len(q)] = " " THEN TrimRight(SubSeq(q, 1, Len(q) - 1)) ELSE q
Trim(q) == TrimRight(TrimLeft(q))

\* the ten domain codes of the select (BusinessDomainSelect.js, businessDomains)
BusinessDomains == {"finance", "healthcare", "retail", "technology", "manufacturing",
                    "education", "logistics", "marketing", "hr", "sales"}

\* the options of the select the model picks: <em>None</em> and two of the ten
FormDomains == {"", "finance", "retail"}
\* the requests a direct caller of handleDownload passes: a valid one, an empty and
\* a blank query, no domain, and a domain that is none of the ten
CallerRequests ==
    {[sqlQuery |-> <<" ", "x", " ">>, businessDomain |-> "finance"],
     [sqlQuery |-> <<>>, businessDomain |-> "finance"],
     [sqlQuery |-> <<" ", " ">>, businessDomain |-> "finance"],
     [sqlQuery |-> <<" ", "x", " ">>, businessDomain |-> ""],
     [sqlQuery |-> <<" ", "x", " ">>, businessDomain |-> "astrology"]}

\* the JSON bodies of POST /prompt/sql: a 2xx body, and the body of a non-2xx answer
DocBodies == [documentId : {Undef, "DOC-1"},
              fileName : {Undef, "", "report.pdf"},
              generatedAt : {Undef, "2024-01-01T00:00:00.000Z"}]
ErrorMessages == {Undef, "", "upstream timeout"}

\* whether the browser takes the synthesized file or downloadFile throws, and the
\* message of what it throws
Deliveries == {"saved", "throws"}
DownloadFileError == "Failed to execute 'createObjectURL' on 'URL'"

\* new Date().toISOString(), its first ten characters, and the text generateDocumentFilename
\* makes of it; the model's clock reads t
IsoString(t) == "T" \o ToString(t) \o ".000Z"
IsoDate(t) == "T" \o ToString(t)
IsoStamp(t) == "T" \o ToString(t) \o "-000Z"

\* ------------------------------------------------------------------------
\* State
\* ------------------------------------------------------------------------
VARIABLES
    phase,          \* "loading": AuthProvider rendered, effect not yet run;
                    \* "mounted": the effect has run; "crashed": the effect threw
    user,           \* useState(null): Null or Some(user object)
    loading,        \* useState(true)
    store,          \* localStorage 'user': Null or Some(text)
    written,        \* the identity the text in the slot was written from, Null when the
                    \* slot was emptied or never written (history variable)
    urlHasCode,     \* window.location.search has a code parameter
    cbPc,           \* checkOAuthCallback: "idle", "skipped", "fetching", "done"
    probePc,        \* checkAuthStatus: "idle", "fetching", "done"
    probeOutcome,   \* how the status probe ended ("none" before)
    cbOutcome,      \* how the callback exchange ended ("none" before, or without one)
    probePrior,     \* isAuthenticated when the status probe settled (history variable)
    logoutPending,  \* logout() calls awaiting their POST
    lastLogout,     \* how the POST of the latest settled logout() ended (history variable)
    lastLogin,      \* when login() made the latest write of user and store: its argument
                    \* and how many times in a row it was called with it, Null
                    \* otherwise (history variable)
    sqlQuery,       \* HomePage useState(''): the text of the query field
    businessDomain, \* HomePage useState(''): the selected domain
    isLoading,      \* HomePage useState(false)
    showSuccess,    \* HomePage useState(false)
    error,          \* HomePage useState(null): Null or Some(message)
    lastDocument,   \* HomePage useState(null): Null or Some(documentInfo)
    genCalls,       \* the requests of the generateDocument calls not yet settled
    lastDelivery,   \* the latest file handed to the browser, Null when none
    redownloads,    \* re-downloads since the latest success (history variable)
    lastOp,         \* the step of HomePage that ran last (history variable)
    delivered,      \* files handed to the browser since the latest submit (history variable)
    settled,        \* the request and the response of the generation call that has just
                    \* settled, Null once HomePage has taken another step (history variable)
    now             \* the clock Date reads

authVars == <<phase, user, loading, store, written, urlHasCode, cbPc, probePc,
              probeOutcome, cbOutcome, probePrior, logoutPending, lastLogout, lastLogin>>

genVars == <<sqlQuery, businessDomain, isLoading, showSuccess, error, lastDocument,
             genCalls, lastDelivery, redownloads, delivered, settled, lastOp>>

vars == <<authVars, genVars, now>>

\* value.isAuthenticated: !!user
isAuthenticated == user # Null

\* ------------------------------------------------------------------------
\* AuthProvider
\* ------------------------------------------------------------------------
\* a login() that keeps the id of the user already signed in
LoginUserKeepsId(userData) ==
    [name |-> userData.name,
     email |-> userData.email,
     id |-> IF user # Null /\ Truthy(user[1].id)
            THEN user[1].id \o "*"
            ELSE OrElse(userData.id, userData.email),
     provider |-> OrElse(userData.provider, "oauth")]

\* the user object login(userData) builds
LoginUser(userData) ==
    [name |-> userData.name,
     email |-> userData.email,
     id |-> OrElse(userData.id, userData.email),
     provider |-> OrElse(userData.provider, "oauth")]

\* a login() that leaves an identity already in memory alone
LoginIfAbsent(userData) ==
    /\ IF user = Null
       THEN /\ user' = Some(LoginUser(userData))
            /\ store' = Some(JSONStringify(LoginUser(userData)))
            /\ written' = Some(LoginUser(userData))
       ELSE UNCHANGED <<user, store, written>>
    /\ lastLogin' = Some([data |-> userData,
                          calls |-> IF lastLogin # Null /\ lastLogin[1].data = userData
                                    THEN lastLogin[1].calls + 1 ELSE 1])

\* login(userData): setUser(user); localStorage.setItem('user', JSON.stringify(user))
Login(userData) ==
    /\ user' = Some(LoginUser(userData))
    /\ store' = Some(JSONStringify(LoginUser(userData)))
    /\ written' = Some(LoginUser(userData))
    /\ lastLogin' = Some([data |-> userData,
                          calls |-> IF lastLogin # Null /\ lastLogin[1].data = userData
                                    THEN lastLogin[1].calls + 1 ELSE 1])

\* setUser(null) without localStorage.removeItem('user')
ClearUserKeepsItem ==
    /\ user' = Null
    /\ UNCHANGED <<store, written>>
    /\ lastLogin' = Null

\* setUser(null); localStorage.removeItem('user')
ClearUser ==
    /\ user' = Null
    /\ store' = Null
    /\ written' = Null
    /\ lastLogin' = Null

\* the state of a freshly rendered page: useState(null), useState(true)
FreshPage ==
    /\ phase' = "loading"
    /\ user' = Null
    /\ loading' = TRUE
    /\ cbPc' = "idle"
    /\ probePc' = "idle"
    /\ probeOutcome' = "none"
    /\ cbOutcome' = "none"
    /\ probePrior' = FALSE
    /\ logoutPending' = 0
    /\ lastLogout' = "none"
    /\ lastLogin' = Null
    /\ sqlQuery' = <<>>
    /\ businessDomain' = ""
    /\ isLoading' = FALSE
    /\ showSuccess' = FALSE
    /\ error' = Null
    /\ lastDocument' = Null
    /\ genCalls' = <<>>
    /\ lastDelivery' = Null
    /\ redownloads' = 0
    /\ delivered' = 0
    /\ settled' = Null
    /\ lastOp' = "none"

\* a checkOAuthCallback that posts to the callback endpoint on every page load
CallbackStartAlways(hasCode) == "fetching"

\* checkOAuthCallback up to its await: `if (code)` guards the fetch
CallbackStart(hasCode) == IF hasCode THEN "fetching" ELSE "skipped"

\* an effect that never reads the storage slot
HydrateNothing(slot) == Null

\* the effect's `if (storedUser) setUser(JSON.parse(storedUser))` on useState(null)
Hydrate(slot) == IF slot = Null THEN Null ELSE Some(JSONParse(slot[1]))

\* useEffect(() => {...}, []): hydrate from localStorage, then start
\* checkOAuthCallback() and checkAuthStatus(), each up to its first await.
\* JSON.parse of a malformed text throws out of the effect before either starts.
Mount ==
    /\ phase = "loading"
    /\ IF store # Null /\ ~store[1].wellFormed
       THEN /\ phase' = "crashed"
            /\ UNCHANGED <<user, cbPc, probePc>>
       ELSE /\ phase' = "mounted"
            /\ user' = Hydrate(store)
            /\ cbPc' = CallbackStart(urlHasCode)
            /\ probePc' = "fetching"
    /\ UNCHANGED <<loading, store, written, urlHasCode, probeOutcome, cbOutcome, probePrior, logoutPending,
                   lastLogout, lastLogin>>
    /\ UNCHANGED <<genVars, now>>

\* how a fetch of the auth controller ended, as its handler tells the cases apart:
\* "ok" is a 2xx answer whose body has name and email, "partial" a 2xx answer without
Answer(outcome, data) ==
    IF outcome = "ok" /\ ~(Truthy(data.name) /\ Truthy(data.email)) THEN "partial" ELSE outcome

\* checkOAuthCallback after its fetch settles
CallbackSettle(outcome, data) ==
    /\ phase = "mounted"
    /\ cbPc = "fetching"
    /\ cbPc' = "done"
    /\ IF outcome = "ok" /\ Truthy(data.name) /\ Truthy(data.email)
       THEN /\ Login(data)
            /\ urlHasCode' = FALSE
       ELSE UNCHANGED <<user, store, written, lastLogin, urlHasCode>>
    /\ cbOutcome' = Answer(outcome, data)
    /\ UNCHANGED <<phase, loading, probePc, probeOutcome, probePrior, logoutPending,
                   lastLogout>>
    /\ UNCHANGED <<genVars, now>>

\* the userData object checkAuthStatus builds from the body of /status
StatusUser(data) ==
    [name |-> data.name,
     email |-> data.email,
     id |-> OrElse(data.id, data.email),
     provider |-> OrElse(data.provider, "oauth")]

\* a success branch that calls setUser(userData) without localStorage.setItem
ProbeWriteMemoryOnly(data) ==
    /\ user' = Some(StatusUser(data))
    /\ lastLogin' = Null
    /\ UNCHANGED <<store, written>>

\* checkAuthStatus: setUser(userData); localStorage.setItem('user', JSON.stringify(userData))
ProbeWrite(data) ==
    /\ user' = Some(StatusUser(data))
    /\ store' = Some(JSONStringify(StatusUser(data)))
    /\ written' = Some(StatusUser(data))
    /\ lastLogin' = Null

\* a probe that takes every answer that is not 2xx for "not signed in"
UnauthenticatedAnyStatus(outcome) == outcome \in {"401", "non2xx"}

\* checkAuthStatus: else if (response.status === 401)
Unauthenticated(outcome) == outcome = "401"

\* setLoading(false) at the end of the try block instead of in finally
ProbeFinallyInTry(outcome) == loading' = IF outcome \in {"badjson", "neterr"} THEN loading ELSE FALSE

\* checkAuthStatus: finally { setLoading(false) }
ProbeFinally(outcome) == loading' = FALSE

\* checkAuthStatus after its fetch settles
ProbeSettle(outcome, data) ==
    /\ phase = "mounted"
    /\ probePc = "fetching"
    /\ probePc' = "done"
    /\ probeOutcome' = Answer(outcome, data)
    /\ probePrior' = isAuthenticated
    /\ IF outcome = "ok" /\ Truthy(data.name) /\ Truthy(data.email)
       THEN ProbeWrite(data)
       ELSE IF Unauthenticated(outcome)
       THEN ClearUser
       ELSE UNCHANGED <<user, store, written, lastLogin>>
    /\ ProbeFinally(outcome)
    /\ UNCHANGED <<phase, urlHasCode, cbPc, cbOutcome, logoutPending, lastLogout>>
    /\ UNCHANGED <<genVars, now>>

\* Header: the avatar menu with Logout is rendered when !loading && isAuthenticated;
\* logout() runs up to its await of the POST
LogoutStart ==
    /\ phase = "mounted"
    /\ ~loading
    /\ isAuthenticated
    /\ logoutPending < MaxLogout
    /\ logoutPending' = logoutPending + 1
    /\ UNCHANGED <<phase, user, loading, store, written, urlHasCode, cbPc, probePc,
                   probeOutcome, cbOutcome, probePrior, lastLogout, lastLogin>>
    /\ UNCHANGED <<genVars, now>>

\* a logout() that clears inside the try block, after the await
LogoutSettleInTry(outcome) ==
    /\ phase = "mounted"
    /\ logoutPending > 0
    /\ logoutPending' = logoutPending - 1
    /\ lastLogout' = outcome
    /\ IF outcome = "neterr" THEN UNCHANGED <<user, store, written, lastLogin>> ELSE ClearUser
    /\ UNCHANGED <<phase, loading, urlHasCode, cbPc, probePc, probeOutcome, cbOutcome, probePrior>>
    /\ UNCHANGED <<genVars, now>>

\* logout() after its POST settles (any status, or a caught network error)
LogoutSettle(outcome) ==
    /\ phase = "mounted"
    /\ logoutPending > 0
    /\ logoutPending' = logoutPending - 1
    /\ lastLogout' = outcome
    /\ ClearUser
    /\ UNCHANGED <<phase, loading, urlHasCode, cbPc, probePc, probeOutcome, cbOutcome, probePrior>>
    /\ UNCHANGED <<genVars, now>>

\* LoginDialog.handleSSOLogin: window.location.href = loginUrl; the provider
\* redirects back with ?code=...&state=..., which loads the page anew
BeginSSOLogin ==
    /\ phase = "mounted"
    /\ ~loading
    /\ ~isAuthenticated
    /\ FreshPage
    /\ urlHasCode' = TRUE
    /\ UNCHANGED <<store, written>>
    /\ UNCHANGED now

\* the user reloads the page at its current address
Reload ==
    /\ phase # "loading"
    /\ FreshPage
    /\ UNCHANGED <<store, written, urlHasCode>>
    /\ UNCHANGED now

\* a consumer of the context calls value.login(userData)
LoginCall(userData) ==
    /\ phase = "mounted"
    /\ lastLogin # Null /\ lastLogin[1].data = userData => lastLogin[1].calls < MaxLoginCalls
    /\ Login(userData)
    /\ UNCHANGED <<phase, loading, urlHasCode, cbPc, probePc, probeOutcome, cbOutcome, probePrior,
                   logoutPending, lastLogout>>
    /\ UNCHANGED <<genVars, now>>

\* ------------------------------------------------------------------------
\* HomePage, QueryForm, generateDocument
\* ------------------------------------------------------------------------
\* QueryForm: isQueryEmpty and isFormValid
isQueryEmpty == sqlQuery = <<>> \/ Trim(sqlQuery) = <<>>
isFormValid == ~isQueryEmpty /\ Truthy(businessDomain)

\* HomePage render: which of LoadingState, SuccessState, QueryForm is shown
FormShown == ~isLoading /\ ~showSuccess
SuccessShown == ~isLoading /\ showSuccess

\* the state of the generation request controller, read off HomePage's state
ControllerState ==
    IF isLoading THEN "submitting"
    ELSE IF showSuccess THEN "success"
    ELSE IF error # Null THEN "error"
    ELSE "idle"

\* { ...base, ...over }: the members present in over replace those of base
Spread(base, over) ==
    [k \in DOMAIN base |-> IF k \in DOMAIN over /\ over[k] # Undef THEN over[k] ELSE base[k]]

\* a generateDocument that fills in its own values whatever the backend sent
GenerateDocumentDataDefaultsOnly(req, data, t) ==
    [documentId |-> "DOC-" \o ToString(t),
     fileName |-> req.businessDomain \o "_analysis_" \o IsoDate(t) \o ".pdf",
     generatedAt |-> IsoString(t)]

\* generateDocument: the data of its result for a 2xx answer with JSON body data
GenerateDocumentData(req, data, t) ==
    Spread([documentId |-> OrElse(data.documentId, "DOC-" \o ToString(t)),
            fileName |-> OrElse(data.fileName,
                                req.businessDomain \o "_analysis_" \o IsoDate(t) \o ".pdf"),
            generatedAt |-> OrElse(data.generatedAt, IsoString(t))],
           data)

\* a generateDocument whose Error never carries the backend's message
GenerateDocumentErrorGeneric(kind, message) ==
    IF kind = "non2xx" THEN "Server error: 500"
    ELSE IF kind = "badjson" THEN "Unexpected token < in JSON at position 0"
    ELSE "Failed to fetch"

\* generateDocument: the message of the Error it throws
GenerateDocumentError(kind, message) ==
    IF kind = "non2xx" THEN OrElse(message, "Server error: 500")
    ELSE IF kind = "badjson" THEN "Unexpected token < in JSON at position 0"
    ELSE "Failed to fetch"

\* helpers.js generateDocumentFilename(domain)
generateDocumentFilename(domain, t) == domain \o "_analysis_" \o IsoStamp(t) \o ".doc"

\* a performDownload that always names the file anew
performDownloadRenames(documentInfo, t) ==
    [fileName |-> generateDocumentFilename(documentInfo.businessDomain, t),
     businessDomain |-> documentInfo.businessDomain,
     generated |-> IsoString(t),
     documentId |-> documentInfo.documentId,
     sqlQuery |-> documentInfo.sqlQuery]

\* performDownload(documentInfo): the file downloadFile is called with
performDownload(documentInfo, t) ==
    [fileName |-> OrElse(documentInfo.fileName,
                         generateDocumentFilename(documentInfo.businessDomain, t)),
     businessDomain |-> documentInfo.businessDomain,
     generated |-> IsoString(t),
     documentId |-> documentInfo.documentId,
     sqlQuery |-> documentInfo.sqlQuery]

\* SqlQueryInput onChange: setSqlQuery(e.target.value)
SetSqlQuery(q) ==
    /\ phase = "mounted"
    /\ FormShown
    /\ sqlQuery' = q
    /\ settled' = Null
    /\ lastOp' = "setSqlQuery"
    /\ UNCHANGED <<authVars, now, businessDomain, isLoading, showSuccess, error,
                   lastDocument, genCalls, lastDelivery, redownloads, delivered>>

\* BusinessDomainSelect onChange (the select is disabled while the query is empty)
SetBusinessDomain(d) ==
    /\ phase = "mounted"
    /\ FormShown
    /\ ~isQueryEmpty
    /\ businessDomain' = d
    /\ settled' = Null
    /\ lastOp' = "setBusinessDomain"
    /\ UNCHANGED <<authVars, now, sqlQuery, isLoading, showSuccess, error,
                   lastDocument, genCalls, lastDelivery, redownloads, delivered>>

\* HomePage.handleDownload(req) up to its await of generateDocument
handleDownload(req) ==
    /\ isLoading' = TRUE
    /\ error' = Null
    /\ genCalls' = Append(genCalls, req)
    /\ delivered' = 0
    /\ settled' = Null
    /\ lastOp' = "handleDownload"
    /\ UNCHANGED <<authVars, now, sqlQuery, businessDomain, showSuccess,
                   lastDocument, lastDelivery, redownloads>>

\* QueryForm.handleDownload: the Download button of the shown form
FormSubmit ==
    /\ phase = "mounted"
    /\ FormShown
    /\ isFormValid
    /\ handleDownload([sqlQuery |-> sqlQuery, businessDomain |-> businessDomain])

\* HomePage.handleDownload called with any request, whatever is shown
DirectSubmit(req) ==
    /\ phase = "mounted"
    /\ Len(genCalls) < MaxInFlight
    /\ handleDownload(req)

\* the sequence s without its i-th element
RemoveAt(s, i) == SubSeq(s, 1, i - 1) \o SubSeq(s, i + 1, Len(s))

\* a documentInfo that leaves out the domain of the request
DocumentInfoDropsDomain(req, data, t) ==
    GenerateDocumentData(req, data, t) @@ [sqlQuery |-> req.sqlQuery, businessDomain |-> Undef]

\* handleDownload: documentInfo = { sqlQuery, businessDomain, ...response.data }
DocumentInfo(req, data, t) ==
    GenerateDocumentData(req, data, t)
    @@ [sqlQuery |-> req.sqlQuery, businessDomain |-> req.businessDomain]

\* the body of an answer that has none
NoBody == [documentId |-> Undef, fileName |-> Undef, generatedAt |-> Undef]

\* setIsLoading(false) at the end of the try block instead of in finally
DownloadFinallyInTry(kind) == isLoading' = IF kind = "ok" THEN FALSE ELSE isLoading

\* handleDownload: finally { setIsLoading(false) }
DownloadFinally(kind) == isLoading' = FALSE

\* handleDownload after generateDocument returned { success: true, data }
GenSettleOk(i, data, delivery) ==
    /\ phase = "mounted"
    /\ i \in 1..Len(genCalls)
    /\ LET req == genCalls[i]
           documentInfo == DocumentInfo(req, data, now)
       IN  /\ lastDocument' = Some(documentInfo)
           /\ IF delivery = "saved"
              THEN /\ lastDelivery' = Some(performDownload(documentInfo, now))
                   /\ delivered' = delivered + 1
                   /\ showSuccess' = TRUE
                   /\ redownloads' = 0
                   /\ UNCHANGED error
              ELSE /\ error' = Some(OrElse(DownloadFileError,
                                           "An error occurred while generating the document"))
                   /\ UNCHANGED <<lastDelivery, delivered, showSuccess, redownloads>>
           /\ settled' = Some([req |-> req, kind |-> "ok", data |-> data, message |-> Undef,
                               delivery |-> delivery, at |-> now])
    /\ DownloadFinally("ok")
    /\ lastOp' = "settled"
    /\ genCalls' = RemoveAt(genCalls, i)
    /\ UNCHANGED <<authVars, now, sqlQuery, businessDomain>>

\* handleDownload after generateDocument threw
GenSettleFail(i, kind, message) ==
    /\ phase = "mounted"
    /\ i \in 1..Len(genCalls)
    /\ error' = Some(OrElse(GenerateDocumentError(kind, message),
                            "An error occurred while generating the document"))
    /\ DownloadFinally(kind)
    /\ settled' = Some([req |-> genCalls[i], kind |-> kind, data |-> NoBody,
                        message |-> IF kind = "non2xx" THEN message ELSE Undef,
                        delivery |-> "none", at |-> now])
    /\ lastOp' = "settled"
    /\ genCalls' = RemoveAt(genCalls, i)
    /\ UNCHANGED <<authVars, now, sqlQuery, businessDomain, showSuccess,
                   lastDocument, lastDelivery, redownloads, delivered>>

\* HomePage.handleRedownload
handleRedownload ==
    /\ redownloads < MaxRedownloads
    /\ IF lastDocument # Null
       THEN /\ lastDelivery' = Some(performDownload(lastDocument[1], now))
            /\ redownloads' = redownloads + 1
            /\ delivered' = delivered + 1
       ELSE UNCHANGED <<lastDelivery, redownloads, delivered>>
    /\ settled' = Null
    /\ lastOp' = "handleRedownload"
    /\ UNCHANGED <<authVars, now, sqlQuery, businessDomain, isLoading, showSuccess,
                   error, lastDocument, genCalls>>

\* SuccessState "Re-download Document"
Redownload ==
    /\ phase = "mounted"
    /\ SuccessShown
    /\ handleRedownload

\* HomePage.handleRedownload called whatever is shown
DirectRedownload ==
    /\ phase = "mounted"
    /\ handleRedownload

\* a handleNewQuery that forgets to drop the cached result
handleNewQueryKeepsDocument ==
    /\ sqlQuery' = <<>>
    /\ businessDomain' = ""
    /\ showSuccess' = FALSE
    /\ error' = Null
    /\ redownloads' = 0
    /\ settled' = Null
    /\ lastOp' = "handleNewQuery"
    /\ UNCHANGED <<authVars, now, isLoading, genCalls, lastDelivery, delivered, lastDocument>>

\* HomePage.handleNewQuery
handleNewQuery ==
    /\ sqlQuery' = <<>>
    /\ businessDomain' = ""
    /\ showSuccess' = FALSE
    /\ lastDocument' = Null
    /\ error' = Null
    /\ redownloads' = 0
    /\ settled' = Null
    /\ lastOp' = "handleNewQuery"
    /\ UNCHANGED <<authVars, now, isLoading, genCalls, lastDelivery, delivered>>

\* SuccessState "Analyze Another Script"
NewQuery ==
    /\ phase = "mounted"
    /\ SuccessShown
    /\ handleNewQuery

\* HomePage.handleNewQuery called whatever is shown
DirectNewQuery ==
    /\ phase = "mounted"
    /\ handleNewQuery

\* Snackbar onClose (its close button, or autoHideDuration running out): handleCloseError
CloseError ==
    /\ phase = "mounted"
    /\ error # Null
    /\ error' = Null
    /\ settled' = Null
    /\ lastOp' = "handleCloseError"
    /\ UNCHANGED <<authVars, now, sqlQuery, businessDomain, isLoading, showSuccess,
                   lastDocument, genCalls, lastDelivery, redownloads, delivered>>

\* time passes
Tick ==
    /\ now < MaxClock
    /\ now' = now + 1
    /\ UNCHANGED <<authVars, genVars>>

\* ------------------------------------------------------------------------
\* Specifications
\* ------------------------------------------------------------------------
\* what the storage slot may hold when the page is first opened
InitialStores ==
    {Null, Some(MalformedText)}
    \cup {Some(JSONStringify(LoginUser(d))) :
            d \in {b \in UserBodies : Truthy(b.name) /\ Truthy(b.email)}}

Init ==
    /\ phase = "loading"
    /\ user = Null
    /\ loading = TRUE
    /\ store \in InitialStores
    /\ written = IF store # Null /\ store[1].wellFormed THEN Hydrate(store) ELSE Null
    /\ urlHasCode \in BOOLEAN
    /\ cbPc = "idle"
    /\ probePc = "idle"
    /\ probeOutcome = "none"
    /\ cbOutcome = "none"
    /\ probePrior = FALSE
    /\ logoutPending = 0
    /\ lastLogout = "none"
    /\ lastLogin = Null
    /\ sqlQuery = <<>>
    /\ businessDomain = ""
    /\ isLoading = FALSE
    /\ showSuccess = FALSE
    /\ error = Null
    /\ lastDocument = Null
    /\ genCalls = <<>>
    /\ lastDelivery = Null
    /\ redownloads = 0
    /\ delivered = 0
    /\ settled = Null
    /\ lastOp = "none"
    /\ now = 0

NextAuth ==
    \/ Mount
    \/ \E o \in Outcomes, d \in UserBodies : CallbackSettle(o, d)
    \/ \E o \in Outcomes, d \in UserBodies : ProbeSettle(o, d)
    \/ LogoutStart
    \/ \E o \in PostOutcomes : LogoutSettle(o)
    \/ BeginSSOLogin
    \/ Reload

NextGen ==
    \/ \E q \in Queries : SetSqlQuery(q)
    \/ \E d \in FormDomains : SetBusinessDomain(d)
    \/ FormSubmit
    \/ \E i \in 1..MaxInFlight, data \in DocBodies, delivery \in Deliveries :
          GenSettleOk(i, data, delivery)
    \/ \E i \in 1..MaxInFlight, kind \in Outcomes \ {"ok", "401"}, message \in ErrorMessages :
          GenSettleFail(i, kind, message)
    \/ Redownload
    \/ NewQuery
    \/ CloseError
    \/ Tick

\* the steps of the form and of one generation call, without re-download, new query,
\* the error snackbar and the clock; the backend answers with an empty JSON body or
\* fails without a message
NextSubmit ==
    \/ \E q \in Queries : SetSqlQuery(q)
    \/ \E d \in FormDomains : SetBusinessDomain(d)
    \/ FormSubmit
    \/ \E i \in 1..MaxInFlight, delivery \in Deliveries : GenSettleOk(i, NoBody, delivery)
    \/ \E i \in 1..MaxInFlight, kind \in Outcomes \ {"ok", "401"} :
          GenSettleFail(i, kind, Undef)

\* calls of the two controllers' operations made directly, not through the rendered page
NextLoginCall == \E d \in UserBodies : LoginCall(d)
NextDirectSubmit == \E req \in CallerRequests : DirectSubmit(req)
NextSettle ==
    \/ \E i \in 1..MaxInFlight, data \in DocBodies, delivery \in Deliveries :
          GenSettleOk(i, data, delivery)
    \/ \E i \in 1..MaxInFlight, kind \in Outcomes \ {"ok", "401"}, message \in ErrorMessages :
          GenSettleFail(i, kind, message)

NextDirectCalls == DirectRedownload \/ DirectNewQuery

Next == NextAuth \/ NextGen

\* the application as App.js wires it: AuthProvider around Header and HomePage
Spec == Init /\ [][Next]_vars

\* AuthProvider and Header alone.  HomePage reads nothing of the context and
\* AuthProvider nothing of HomePage, so the steps of one component leave the
\* variables of the other alone, but for a page load, which resets both.
SpecAuth == Init /\ [][NextAuth]_vars

\* AuthProvider with login() of the context called by a consumer
SpecAuthApi == Init /\ [][NextAuth \/ NextLoginCall]_vars

\* a first visit: the storage slot is empty and the address has no code
InitClean == Init /\ store = Null /\ ~urlHasCode

\* HomePage alone
SpecGen == InitClean /\ [][NextGen \/ Mount \/ Reload]_vars

\* the generation call of HomePage with handleDownload called directly, not by the form
SpecGenApi == InitClean /\ [][NextDirectSubmit \/ NextSettle \/ Mount \/ Reload]_vars

\* HomePage with handleRedownload and handleNewQuery also called directly
SpecGenCalls == InitClean /\ [][NextGen \/ NextDirectCalls \/ Mount \/ Reload]_vars

\* AuthProvider and Header together with the form and the generation call of HomePage
SpecApp == InitClean /\ [][NextAuth \/ NextSubmit]_vars

\* ------------------------------------------------------------------------
\* Properties
\* ------------------------------------------------------------------------
\* a request the data model accepts: the query is not empty after trimming and the
\* domain is one of the ten codes
ValidRequest(req) == Trim(req.sqlQuery) # <<>> /\ req.businessDomain \in BusinessDomains

\* an identity with all four fields non-empty
CompleteIdentity(u) == \A i \in 1..Len(Fields) : Truthy(u[Fields[i]])

\* C1 (single-flight): at most one generation call is outstanding in every reachable
\* state, so a submit made while one is outstanding starts no second call.
C1_SingleFlight == Len(genCalls) <= 1

\* C2 (probe authority): whatever user and store held before, the step that applies a
\* 401 answer of the status probe leaves the in-memory identity absent and the
\* storage slot empty.
C2_ProbeAuthority ==
    [][(probePc = "fetching" /\ probePc' = "done" /\ probeOutcome' = "401")
        => (user' = Null /\ store' = Null)]_vars

\* C2: a 401 has been applied to a page that was authenticated, and both are cleared
C2_Witness ==
    /\ probePc = "done" /\ probeOutcome = "401" /\ probePrior
    /\ ~isAuthenticated /\ store = Null

\* C3 (validation gate): no generation call is ever outstanding for a request whose
\* query is empty after trimming or whose domain is none of the ten codes, and the
\* controller is never in submitting for one, also when handleDownload is called directly.
C3_ValidationGate == \A i \in 1..Len(genCalls) : ValidRequest(genCalls[i])

\* C4 (redownload is network-free): every re-download happens in success and leaves the
\* controller in success, issues no generation call, leaves the cached document
\* unchanged, and delivers a file with the documentId, sqlQuery and businessDomain of
\* the cached document, named by its fileName (by a name generated from its
\* businessDomain when its fileName is empty).
C4_RedownloadNetworkFree ==
    [][redownloads' = redownloads + 1 =>
        /\ ControllerState = "success" /\ ControllerState' = "success"
        /\ genCalls = <<>> /\ genCalls' = <<>>
        /\ lastDocument # Null /\ lastDocument' = lastDocument
        /\ error' = error
        /\ lastDelivery' # Null
        /\ lastDelivery'[1].documentId = lastDocument[1].documentId
        /\ lastDelivery'[1].sqlQuery = lastDocument[1].sqlQuery
        /\ lastDelivery'[1].businessDomain = lastDocument[1].businessDomain
        /\ lastDelivery'[1].fileName =
             IF Truthy(lastDocument[1].fileName)
             THEN lastDocument[1].fileName
             ELSE lastDocument[1].businessDomain \o "_analysis_" \o IsoStamp(now) \o ".doc"
      ]_vars

\* C4: the cached document, which the backend named, has been re-downloaded
\* MaxRedownloads times, later than it was generated
C4_Witness ==
    /\ redownloads = MaxRedownloads
    /\ ControllerState = "success"
    /\ lastDocument # Null /\ lastDocument[1].fileName = "report.pdf"
    /\ lastDelivery # Null /\ lastDelivery[1].fileName = "report.pdf"
    /\ lastDocument[1].generatedAt = IsoString(0)
    /\ lastDelivery[1].generated = IsoString(MaxClock)

\* C5 (idempotent login): whenever login(data) has just written, the in-memory identity
\* is data with id defaulted to email and provider to "oauth" when omitted, the storage
\* slot holds exactly that identity, and a call that repeats the previous call's data
\* leaves identity and slot as that call left them.
C5_IdempotentLogin ==
    [][(lastLogin' # Null /\ lastLogin' # lastLogin) =>
        LET d == lastLogin'[1].data
            identity == [name |-> d.name,
                         email |-> d.email,
                         id |-> IF d.id = Undef THEN d.email ELSE d.id,
                         provider |-> IF d.provider = Undef THEN "oauth" ELSE d.provider]
        IN  /\ user' = Some(identity)
            /\ store' # Null /\ store'[1].wellFormed
            /\ JSONParse(store'[1]) = identity
            /\ lastLogin'[1].calls > 1 => (user' = user /\ store' = store)
      ]_vars

\* C5: login() has been called twice in a row with data that omits id and provider
C5_Witness ==
    /\ lastLogin # Null /\ lastLogin[1].calls = 2
    /\ lastLogin[1].data.id = Undef /\ lastLogin[1].data.provider = Undef
    /\ lastLogin[1].data.email = "ann@x.io"
    /\ user # Null /\ user[1].id = "ann@x.io" /\ user[1].provider = "oauth"

\* C6 (local logout always succeeds): the step in which a logout() resumes after its POST,
\* however the POST ended, leaves the identity absent and the storage slot empty; the
\* step that issues the POST changes neither.
C6_LogoutClears ==
    [][/\ (logoutPending' < logoutPending /\ phase' = "mounted")
            => (user' = Null /\ store' = Null)
       /\ logoutPending' > logoutPending => (user' = user /\ store' = store)
      ]_vars

\* C6: a logout() whose POST failed at the network has cleared identity and slot
C6_Witness ==
    /\ lastLogout = "neterr" /\ logoutPending = 0
    /\ probeOutcome = "ok" /\ probePrior
    /\ ~isAuthenticated /\ store = Null

\* C7 (malformed snapshot tolerance): once the effect has run on a page whose storage
\* slot holds malformed data, the page is mounted with the identity absent and the
\* callback exchange and the status probe have been started.
C7_MalformedTolerated ==
    (phase # "loading" /\ store # Null /\ ~store[1].wellFormed)
        => (phase = "mounted" /\ user = Null /\ cbPc # "idle" /\ probePc # "idle")

\* C8 (identity completeness): the in-memory identity and the stored snapshot are each
\* absent (a malformed snapshot counts as absent) or have id, name, email and provider
\* non-empty.
C8_IdentityComplete ==
    /\ user = Null \/ CompleteIdentity(user[1])
    /\ store = Null \/ ~store[1].wellFormed \/ CompleteIdentity(JSONParse(store[1]))

\* C9 (loading tracks the status probe): loading is true exactly as long as the status
\* probe of the page load has not settled, whatever the callback exchange does, and
\* once false it stays false until the page is loaded anew.
C9_LoadingTracksProbe ==
    /\ [](loading <=> probePc # "done")
    /\ [][(~loading /\ phase' # "loading") => ~loading']_vars

\* C9: the probe has failed at the network while the callback exchange is still
\* outstanding, and loading is false
C9_Witness ==
    /\ probePc = "done" /\ probeOutcome = "neterr"
    /\ cbPc = "fetching"
    /\ ~loading

\* C10 (authentication gate): a generation call is issued only in a state where
\* isAuthenticated is true.
C10_AuthGate == [][Len(genCalls') > Len(genCalls) => isAuthenticated]_vars

\* the answer of the generation call that has just settled, and whether it was HTTP success
JustSettled == settled # Null
HttpSuccess(r) == r.kind \in {"ok", "badjson"}
HttpFailure(r) == r.kind \in {"non2xx", "neterr"}

\* the controller is in success for the request and the answer r: the cached result
\* holds the backend's fields with the submitted sqlQuery and businessDomain, and one
\* file went out under the resolved fileName
SuccessReached(r) ==
    /\ ControllerState = "success"
    /\ lastDocument # Null
    /\ lastDocument[1].sqlQuery = r.req.sqlQuery
    /\ lastDocument[1].businessDomain = r.req.businessDomain
    /\ \A f \in DOMAIN r.data : r.data[f] # Undef => lastDocument[1][f] = r.data[f]
    /\ delivered = 1
    /\ lastDelivery # Null
    /\ lastDelivery[1].fileName =
           OrElse(lastDocument[1].fileName,
                  generateDocumentFilename(r.req.businessDomain, r.at))
    /\ Truthy(r.data.fileName) => lastDelivery[1].fileName = r.data.fileName

FallbackMessages ==
    {"Server error: 500", "Failed to fetch", "An error occurred while generating the document"}

\* the controller is in error for the failed answer r, showing the backend's message
\* when it sent one and a fallback otherwise, and the call delivered no file
ErrorReached(r) ==
    /\ ControllerState = "error"
    /\ error # Null
    /\ IF Truthy(r.message) THEN error[1] = r.message ELSE error[1] \in FallbackMessages
    /\ delivered = 0

\* C12: whenever the generation call has answered non-2xx or failed at the network, the
\* controller is in error with exactly the backend's message (a fallback when the body
\* has none) and no file was delivered; that step caches no result and delivers
\* nothing; and from error a valid submit of the form is possible and enters submitting
\* with one new generation call.
C12_ErrorTransition ==
    /\ []((JustSettled /\ HttpFailure(settled[1])) => ErrorReached(settled[1]))
    /\ []((phase = "mounted" /\ ControllerState = "error" /\ isFormValid)
             => ENABLED FormSubmit)
    /\ [][(settled' # Null /\ settled' # settled /\ HttpFailure(settled'[1]))
             => (lastDocument' = lastDocument /\ lastDelivery' = lastDelivery)]_vars
    /\ [][(ControllerState = "error" /\ Len(genCalls') > Len(genCalls))
             => /\ ControllerState' = "submitting"
                /\ genCalls' = Append(genCalls, [sqlQuery |-> sqlQuery,
                                                 businessDomain |-> businessDomain])
                /\ ValidRequest(genCalls'[Len(genCalls')])
                /\ error' = Null]_vars

C12_Witness ==
    /\ JustSettled
    /\ settled[1].kind = "non2xx"
    /\ settled[1].message = "upstream timeout"
    /\ ControllerState = "error"
    /\ error = Some("upstream timeout")
    /\ isFormValid

\* C13: handleNewQuery run in success or in error leaves the controller idle with no
\* cached result and no error message; a handleRedownload that follows it delivers
\* nothing; and in idle a valid form can be submitted, which enters submitting.
C13_NewQueryReset ==
    /\ [][(lastOp' = "handleNewQuery" /\ ControllerState \in {"success", "error"})
             => (ControllerState' = "idle" /\ lastDocument' = Null /\ error' = Null)]_vars
    /\ [][(lastOp = "handleNewQuery" /\ lastOp' = "handleRedownload")
             => (delivered' = delivered /\ lastDelivery' = lastDelivery
                 /\ lastDocument' = Null)]_vars
    /\ []((lastOp = "handleNewQuery" /\ ControllerState = "idle")
             => (FormShown /\ \A q \in Queries : ENABLED SetSqlQuery(q)))
    /\ []((phase = "mounted" /\ ControllerState = "idle" /\ isFormValid)
             => ENABLED FormSubmit)
    /\ [][(ControllerState = "idle" /\ lastOp' = "handleDownload")
             => (ControllerState' = "submitting" /\ Len(genCalls') = Len(genCalls) + 1)]_vars

\* after a success handleNewQuery has run, and a redownload after it found nothing to deliver
C13_Witness ==
    /\ lastOp = "handleRedownload"
    /\ ControllerState = "idle"
    /\ lastDocument = Null
    /\ error = Null
    /\ lastDelivery # Null
    /\ delivered = 1

\* the answers of the backend that are HTTP success, whatever their body
HttpOk == {"ok", "partial", "badjson"}

\* C14: once the callback endpoint has answered with HTTP success the address holds no
\* code and state any more, and they leave the address only by such an answer, on the
\* page that is shown (no navigation).
C14_UrlCleanup ==
    /\ [](cbOutcome \in HttpOk => ~urlHasCode)
    /\ [][(urlHasCode /\ ~urlHasCode') => (cbOutcome' \in HttpOk /\ phase' = phase)]_vars

\* C15: the step that mounts a page leaves in memory exactly the identity that login or
\* a successful probe last wrote into the slot, and nothing when logout or a 401 has
\* emptied the slot since, and it does so while the probe, and the callback exchange
\* if there is one, are still outstanding.
C15_RoundTrip ==
    [][(phase = "loading" /\ phase' = "mounted")
          => /\ user' = written
             /\ written = Null <=> store = Null
             /\ probePc' = "fetching"
             /\ cbPc' \in {"fetching", "skipped"}]_vars

\* a page has been loaded after login() wrote an identity that no backend answer gives
C15_Witness ==
    /\ phase = "mounted"
    /\ probePc = "fetching"
    /\ lastLogin = Null
    /\ user # Null
    /\ user = written
    /\ user[1].name = ""
    /\ user[1].provider = "oauth"

\* the steps in which the status probe and the callback exchange settle
ProbeSettles == probePc = "fetching" /\ probePc' = "done"
CallbackSettles == cbPc = "fetching" /\ cbPc' = "done"

\* C16: when the probe settles with 401 or with an identity after the callback exchange
\* has logged in, memory and slot are the probe's (both empty after a 401); when the
\* callback exchange logs in after the probe has written or cleared, memory and slot
\* hold the identity login() built from the callback's body.
C16_LastSettlingWins ==
    /\ [][(ProbeSettles /\ cbOutcome = "ok" /\ probeOutcome' = "401")
             => (user' = Null /\ store' = Null)]_vars
    /\ [][(ProbeSettles /\ cbOutcome = "ok" /\ probeOutcome' = "ok")
             => /\ user' # Null /\ lastLogin' = Null
                /\ CompleteIdentity(user'[1])
                /\ store' = Some(JSONStringify(user'[1]))]_vars
    /\ [][(CallbackSettles /\ probeOutcome \in {"ok", "401"} /\ cbOutcome' = "ok")
             => /\ lastLogin' # Null
                /\ user' = Some(LoginUser(lastLogin'[1].data))
                /\ store' = Some(JSONStringify(LoginUser(lastLogin'[1].data)))]_vars

\* the callback exchange logged in and the probe's 401 came after it: nobody is
\* signed in, although no logout ran on this page
C16_Witness ==
    /\ cbOutcome = "ok"
    /\ probeOutcome = "401"
    /\ lastLogout = "none"
    /\ logoutPending = 0
    /\ user = Null
    /\ store = Null

\* C17: on a mounted page, whatever the callback exchange, the probe, login and logout
\* have done so far and in whatever order, memory and slot agree: both are empty, or
\* the slot holds well-formed text whose members are the four fields in memory.
C17_MemoryStoreAgreement ==
    phase = "mounted"
        => IF store = Null
           THEN user = Null
           ELSE /\ user # Null
                /\ store[1].wellFormed
                /\ \A i \in 1..Len(Fields) :
                      Member(store[1], Fields[i]) = user[1][Fields[i]]

\* callback exchange and probe have both written, a logout is outstanding, and memory
\* and slot hold the same identity
C17_Witness ==
    /\ phase = "mounted"
    /\ cbOutcome = "ok"
    /\ probeOutcome = "ok"
    /\ logoutPending > 0
    /\ user # Null
    /\ store = Some(JSONStringify(user[1]))

\* C18: the step in which the probe settles with a 2xx answer lacking name or email
\* (or not JSON at all), with a status that is neither 2xx nor 401, or with a network
\* error leaves the in-memory identity and the storage slot as they were.
C18_ProbeNonAuthoritative ==
    [][(ProbeSettles /\ probeOutcome' \in {"partial", "badjson", "non2xx", "neterr"})
          => (user' = user /\ store' = store)]_vars

\* a signed-in user is still signed in after the probe got a 500
C18_Witness ==
    /\ probePc = "done"
    /\ probeOutcome = "non2xx"
    /\ probePrior
    /\ lastLogout = "none"
    /\ user # Null
    /\ store # Null

\* C19: a page loaded at an address without code sends no callback request, then or
\* later; and the step in which the exchange settles with a status that is not 2xx or
\* with a network error leaves the in-memory identity, the storage slot and the address
\* as they were, keeps the page running and shows no error.
C19_CallbackFailureChangesNothing ==
    /\ [][(phase = "loading" /\ phase' = "mounted" /\ ~urlHasCode) => cbPc' = "skipped"]_vars
    /\ [][cbPc = "skipped" => cbPc' \in {"skipped", "idle"}]_vars
    /\ [](cbPc = "skipped" => cbOutcome = "none")
    /\ [][(CallbackSettles /\ cbOutcome' \in {"401", "non2xx", "neterr"})
             => /\ user' = user
                /\ store' = store
                /\ urlHasCode' = urlHasCode
                /\ phase' = phase
                /\ error' = error]_vars

\* the exchange got a 500: the user hydrated from the slot is still signed in and the
\* code is still in the address
C19_Witness ==
    /\ cbPc = "done"
    /\ cbOutcome = "non2xx"
    /\ probePc = "fetching"
    /\ urlHasCode
    /\ user # Null
    /\ store # Null
    /\ error = Null

\* C20: on a page that stays loaded, a step that takes the controller out of error, or
\* changes its message, is a handleNewQuery or a submit (no timer and no other step
\* does it), and a submit from error enters submitting with a new call, as from idle.
C20_ErrorLeftByIntent ==
    /\ [][(phase' = "mounted" /\ ControllerState = "error"
             /\ (ControllerState' # "error" \/ error' # error))
             => lastOp' \in {"handleNewQuery", "handleDownload"}]_vars
    /\ [][(ControllerState \in {"error", "idle"} /\ lastOp' = "handleDownload"
             /\ Len(genCalls') > Len(genCalls))
             => (ControllerState' = "submitting" /\ error' = Null)]_vars

\* C21: while a generation call is outstanding, a handleNewQuery or a handleRedownload
\* changes nothing of the controller: not its state, not the form's request, not the
\* cached result, and it delivers no file; so a call never settles on a controller
\* that was reset after the submit.
C21_NoResetWhileSubmitting ==
    [][(isLoading /\ lastOp' \in {"handleNewQuery", "handleRedownload"})
          => /\ ControllerState' = ControllerState
             /\ sqlQuery' = sqlQuery
             /\ businessDomain' = businessDomain
             /\ lastDocument' = lastDocument
             /\ showSuccess' = showSuccess
             /\ delivered' = delivered]_vars

\* C22: the step in which the outstanding generation call settles, whatever its answer,
\* takes the controller from submitting to success or to error; and on a page that
\* stays loaded the controller leaves submitting by no other step, so not by a timer.
C22_SubmittingEndsAtSettle ==
    /\ [][(Len(genCalls) = 1 /\ Len(genCalls') = 0 /\ phase' = "mounted")
             => /\ ControllerState = "submitting"
                /\ ControllerState' \in {"success", "error"}
                /\ lastOp' = "settled"]_vars
    /\ [][(ControllerState = "submitting" /\ ControllerState' # "submitting"
             /\ phase' = "mounted")
             => (lastOp' = "settled" /\ Len(genCalls') < Len(genCalls))]_vars
    /\ [](phase = "mounted" => (ControllerState = "submitting" <=> Len(genCalls) = 1))

\* the call failed at the network after time had passed, and the controller is in error
C22_Witness ==
    /\ JustSettled
    /\ settled[1].kind = "neterr"
    /\ settled[1].at = MaxClock
    /\ ControllerState = "error"
    /\ genCalls = <<>>

\* C23: in the result cached for a 2xx answer with a JSON body, documentId, fileName
\* and generatedAt are each the backend's value when the body has that member, and
\* otherwise the placeholder made of the time, the name made of the submitted domain
\* and the date, and the timestamp of the moment the answer was read.
C23_DefaultsAndPrecedence ==
    (JustSettled /\ settled[1].kind = "ok")
        => LET r == settled[1]
               Default == [documentId |-> "DOC-" \o ToString(r.at),
                           fileName |-> r.req.businessDomain \o "_analysis_"
                                        \o IsoDate(r.at) \o ".pdf",
                           generatedAt |-> IsoString(r.at)]
           IN  /\ lastDocument # Null
               /\ \A f \in DOMAIN Default :
                     lastDocument[1][f] = IF r.data[f] # Undef THEN r.data[f] ELSE Default[f]

\* the backend sent a generatedAt and nothing else, after time had passed
C23_Witness ==
    /\ JustSettled
    /\ settled[1].kind = "ok"
    /\ settled[1].at = MaxClock
    /\ settled[1].data.documentId = Undef
    /\ settled[1].data.fileName = Undef
    /\ settled[1].data.generatedAt # Undef
    /\ lastDocument # Null
    /\ lastDocument[1].documentId = "DOC-" \o ToString(MaxClock)
    /\ lastDocument[1].generatedAt = settled[1].data.generatedAt

\* C24: on a mounted page a result is cached exactly when the controller is in success
\* (none in idle, submitting or error, also after a delivery that threw), and in
\* success no error message is held.
C24_CachedIffSuccess ==
    phase = "mounted"
        => /\ lastDocument # Null <=> ControllerState = "success"
           /\ ControllerState = "success" => error = Null


====
